---------------------------- MODULE Spec2Model ----------------------------
(***************************************************************************)
(* The automation scheduler of richardview                                 *)
(* (src/richardview/_system/_automation_widget.py, class AutomationWidget).*)
(*                                                                         *)
(* Every handler of the widget is a pure operator on a record holding the  *)
(* object's fields, the Tk timer queue and the record of executed steps;   *)
(* each action of the state machine applies one handler at the current     *)
(* clock reading.  The clock counts units of 1/TicksPerSecond seconds and  *)
(* one handler runs at one clock reading: every time.time() call inside a  *)
(* handler returns the same value.                                         *)
(***************************************************************************)
EXTENDS Integers, Sequences, FiniteSets, Bags, TLC

\* ------------------------------------------------------------- bounds
\* Clock units per second (the resolution of the modelled time.time()).
TicksPerSecond == 2
\* The clock stops advancing here.
MaxTime == 6
\* Longest script (number of primitive calls) a loaded file holds.
MaxScriptLen == 1
\* Most timer callbacks in the Tk queue; a start needs room for one more.
MaxPending == 2
\* Most clock units a timer callback fires after it is due.
MaxLate == 2
\* The clock of the specification with fairness stops advancing here.
LiveMaxTime == 20
\* Longest script of the specification that runs a file call by call.
MaxExecLen == 3
\* Most clock units a timer callback fires after it is due, and the reading
\* at which the clock stops, in the specification with a busy event loop.
LateMaxLate == 4
LateMaxTime == 7
\* Most consecutive failed reads of the Picarro widget.
MaxFails == 5
\* Longest script of the specification that loads file after file.
MaxReloadLen == 3

\* ------------------------------------------------- program constants
\* root.after(1000, self._update_tasks)
PollingIntervalMs == 1000

VARIABLES
    delay_for_loading,      \* self.delay_for_loading
    delay_list,             \* self.delay_list
    absolute_time_list,     \* self.absolute_time_list (clock units)
    lambda_list,            \* self.lambda_list
    automation_index,       \* self.automation_index (0-based, as in the code)
    seconds_to_next_task,   \* self.seconds_to_next_task
    time_to_go,             \* self.time_to_go
    pause_tasks,            \* self.pause_tasks
    end_time,               \* self.end_time (clock units)
    buttons,                \* states of the four buttons, running label, start text
    file_loaded,            \* self.file_loaded
    lines_loaded,           \* self.lines_loaded: <<>> for "", <<k, n>> for "k/n steps done."
    step_countdown_readout, \* self.step_countdown_readout
    time_to_go_readout,     \* self.time_to_go_readout
    pending,                \* bag of due times of the root.after callbacks not yet fired
    executed,               \* 0-based indices of the steps invoked since the last fresh start
    now,                    \* time.time(), in clock units
    paused_at,              \* clock reading of the last pause of this run, kept by a
                            \* stop of the paused run; -1 if none
    messagebox,             \* text of the messagebox the last handler showed, "" if none
    exec_state,             \* exec of a script file, one primitive call at a time
    target,                 \* the widget a script addresses: its fields, the calls made on it
    began_in,               \* running label shown when the run in progress was started afresh, "" if none
    picarro                 \* the Picarro widget: its fields, num_fails, the last handler's calls and return

vars == <<delay_for_loading, delay_list, absolute_time_list, lambda_list,
          automation_index, seconds_to_next_task, time_to_go, pause_tasks,
          end_time, buttons, file_loaded, lines_loaded, step_countdown_readout,
          time_to_go_readout, pending, executed, now, paused_at, messagebox,
          exec_state, target, began_in, picarro>>

\* ------------------------------------------------------------ helpers
RECURSIVE Sum(_)
\* Python's sum(list)
Sum(s) == IF s = <<>> THEN 0 ELSE Head(s) + Sum(Tail(s))

\* str(timedelta(seconds=n)): normalised to days, hours, minutes, seconds
Timedelta(n) ==
    <<n \div 86400, (n % 86400) \div 3600, (n % 3600) \div 60, n % 60>>

\* int(round(d / TicksPerSecond)): Python 3 rounds halves to the even integer
RoundSeconds(d) ==
    LET q == d \div TicksPerSecond
        r == d % TicksPerSecond
    IN  IF 2 * r < TicksPerSecond THEN q
        ELSE IF 2 * r > TicksPerSecond THEN q + 1
        ELSE IF q % 2 = 0 THEN q ELSE q + 1

\* clock units of root.after(ms, ...)
AfterUnits(ms) == (ms * TicksPerSecond) \div 1000

\* the widget object together with the Tk timer queue and the execution record
Self ==
    [delay_for_loading |-> delay_for_loading, delay_list |-> delay_list,
     absolute_time_list |-> absolute_time_list, lambda_list |-> lambda_list,
     automation_index |-> automation_index,
     seconds_to_next_task |-> seconds_to_next_task, time_to_go |-> time_to_go,
     pause_tasks |-> pause_tasks, end_time |-> end_time, buttons |-> buttons,
     file_loaded |-> file_loaded, lines_loaded |-> lines_loaded,
     step_countdown_readout |-> step_countdown_readout,
     time_to_go_readout |-> time_to_go_readout,
     pending |-> pending, executed |-> executed, messagebox |-> "",
     target |-> target]

\* the handler's result becomes the next state
Becomes(s) ==
    /\ delay_for_loading' = s.delay_for_loading
    /\ delay_list' = s.delay_list
    /\ absolute_time_list' = s.absolute_time_list
    /\ lambda_list' = s.lambda_list
    /\ automation_index' = s.automation_index
    /\ seconds_to_next_task' = s.seconds_to_next_task
    /\ time_to_go' = s.time_to_go
    /\ pause_tasks' = s.pause_tasks
    /\ end_time' = s.end_time
    /\ buttons' = s.buttons
    /\ file_loaded' = s.file_loaded
    /\ lines_loaded' = s.lines_loaded
    /\ step_countdown_readout' = s.step_countdown_readout
    /\ time_to_go_readout' = s.time_to_go_readout
    /\ pending' = s.pending
    /\ executed' = s.executed
    /\ messagebox' = s.messagebox
    /\ target' = s.target

\* ------------------------------------------------------------ buttons
\* _buttons_running_mode that leaves the start button usable
_buttons_running_mode_StartEnabled ==
    [load |-> "disabled", start |-> "normal", pause |-> "normal",
     stop |-> "normal", start_text |-> "Start", label |-> "(running)"]

_buttons_running_mode ==
    [load |-> "disabled", start |-> "disabled", pause |-> "normal",
     stop |-> "normal", start_text |-> "Start", label |-> "(running)"]

\* _buttons_paused_mode that leaves the load button usable
_buttons_paused_mode_LoadEnabled ==
    [load |-> "normal", start |-> "normal", pause |-> "disabled",
     stop |-> "normal", start_text |-> "Resume", label |-> "(paused)"]

_buttons_paused_mode ==
    [load |-> "disabled", start |-> "normal", pause |-> "disabled",
     stop |-> "normal", start_text |-> "Resume", label |-> "(paused)"]

_buttons_stopped_mode ==
    [load |-> "normal", start |-> "normal", pause |-> "disabled",
     stop |-> "disabled", start_text |-> "Start", label |-> "(stopped)"]

\* ------------------------------------------------- scripting primitives
\* A delay string is its ":"-separated parts; a part is <<"int", n>> when
\* int(part) succeeds with value n and <<"bad", 0>> when int(part) raises.
IntPart(n) == <<"int", n>>
BadPart == <<"bad", 0>>

\* schedule_delay: [ok |-> the call returned, s |-> the state it leaves]
schedule_delay(s, delay) ==
    IF Len(delay) # 3 \/ \E i \in 1..Len(delay) : delay[i][1] # "int"
    THEN [ok |-> FALSE, s |-> s]
    ELSE LET delay_to_add == 3600 * delay[1][2] + 60 * delay[2][2] + delay[3][2]
         IN  [ok |-> TRUE,
              s |-> [s EXCEPT !.delay_for_loading = @ + delay_to_add]]

\* schedule_function that leaves the accumulated delay in place
schedule_function_KeepsAccumulator(s, function) ==
    LET s1 == IF Len(s.delay_list) = 0
              THEN [s EXCEPT !.seconds_to_next_task = s.delay_for_loading]
              ELSE s
        dl == Append(s1.delay_list, s1.delay_for_loading)
    IN  [s1 EXCEPT !.delay_list = dl,
                   !.lambda_list = Append(@, function),
                   !.time_to_go = Sum(dl)]

schedule_function(s, function) ==
    LET s1 == IF Len(s.delay_list) = 0
              THEN [s EXCEPT !.seconds_to_next_task = s.delay_for_loading]
              ELSE s
        dl == Append(s1.delay_list, s1.delay_for_loading)
    IN  [s1 EXCEPT !.delay_list = dl,
                   !.delay_for_loading = 0,
                   !.lambda_list = Append(@, function),
                   !.time_to_go = Sum(dl)]


\* the fields of the widget a script addresses (the IoT relay, nicknamed "UV Light")
TargetAttributes == {"Status Selection", "Actual Status"}

\* the closure schedule_action queues
ActionLambda(field, value, confirm) ==
    [kind |-> "action", raises |-> FALSE, field |-> field, value |-> value,
     confirm |-> confirm]

\* a function of the script's author; raises says whether calling it raises
UserFunction(raises) ==
    [kind |-> "function", raises |-> raises, field |-> "", value |-> "",
     confirm |-> FALSE]

\* schedule_action that queues the step before it looks the field up
schedule_action_AppendsFirst(s, target_field_name, new_target_value, confirm) ==
    [ok |-> target_field_name \in TargetAttributes,
     s |-> schedule_function(
               s, ActionLambda(target_field_name, new_target_value, confirm))]

schedule_action(s, target_field_name, new_target_value, confirm) ==
    IF target_field_name \notin TargetAttributes
    THEN [ok |-> FALSE, s |-> s]
    ELSE [ok |-> TRUE,
          s |-> schedule_function(
                    s, ActionLambda(target_field_name, new_target_value, confirm))]

\* one call of a script: the primitive and its arguments
DelayCall(delay) ==
    [op |-> "schedule_delay", delay |-> delay, function |-> UserFunction(FALSE)]
FunctionCall(function) ==
    [op |-> "schedule_function", delay |-> <<>>, function |-> function]
ActionCall(field, value, confirm) ==
    [op |-> "schedule_action", delay |-> <<>>,
     function |-> ActionLambda(field, value, confirm)]

\* what one call of the script does
Primitive(s, c) ==
    CASE c.op = "schedule_delay" -> schedule_delay(s, c.delay)
      [] c.op = "schedule_function" ->
            [ok |-> TRUE, s |-> schedule_function(s, c.function)]
      [] c.op = "schedule_action" ->
            schedule_action(s, c.function.field, c.function.value,
                            c.function.confirm)

RECURSIVE Exec(_, _)
\* exec(script, ...): the calls run in order until one raises
Exec(s, script) ==
    IF script = <<>> THEN [ok |-> TRUE, s |-> s]
    ELSE LET r == Primitive(s, Head(script))
         IN  IF r.ok THEN Exec(r.s, Tail(script)) ELSE r

\* a file the dialog returns: unreadable (the dialog was cancelled), or a script
Unreadable == [readable |-> FALSE, script |-> <<>>]
ScriptFile(script) == [readable |-> TRUE, script |-> script]

\* _load_automation_file that keeps the functions of the previous script
_load_automation_file_KeepsFunctions(s, file) ==
    LET reset == [s EXCEPT !.delay_for_loading = 0,
                           !.delay_list = <<>>,
                           !.absolute_time_list = <<>>,
                           !.automation_index = 0,
                           !.seconds_to_next_task = 0,
                           !.time_to_go = 0,
                           !.pause_tasks = TRUE,
                           !.buttons = _buttons_stopped_mode,
                           !.step_countdown_readout = Timedelta(0),
                           !.time_to_go_readout = Timedelta(0),
                           !.file_loaded = "No file loaded.",
                           !.lines_loaded = <<>>,
                           !.executed = <<>>]
        r == Exec(reset, file.script)
        n == Len(r.s.delay_list)
        first == IF n = 0 THEN 0 ELSE r.s.delay_list[1]
    IN  IF ~file.readable THEN reset
        ELSE IF ~r.ok
             THEN [r.s EXCEPT !.messagebox = "The script you loaded contains an error. See console for details."]
        ELSE [r.s EXCEPT !.file_loaded = "Loaded",
                         !.lines_loaded = <<0, n>>,
                         !.time_to_go = Sum(r.s.delay_list),
                         !.seconds_to_next_task = first,
                         !.step_countdown_readout = Timedelta(first),
                         !.time_to_go_readout = Timedelta(Sum(r.s.delay_list))]

\* _load_automation_file that counts the delays left pending into the total
_load_automation_file_CountsTrailing(s, file) ==
    LET reset == [s EXCEPT !.delay_for_loading = 0,
                           !.delay_list = <<>>,
                           !.absolute_time_list = <<>>,
                           !.lambda_list = <<>>,
                           !.automation_index = 0,
                           !.seconds_to_next_task = 0,
                           !.time_to_go = 0,
                           !.pause_tasks = TRUE,
                           !.buttons = _buttons_stopped_mode,
                           !.step_countdown_readout = Timedelta(0),
                           !.time_to_go_readout = Timedelta(0),
                           !.file_loaded = "No file loaded.",
                           !.lines_loaded = <<>>,
                           !.executed = <<>>]
        r == Exec(reset, file.script)
        n == Len(r.s.delay_list)
        first == IF n = 0 THEN 0 ELSE r.s.delay_list[1]
    IN  IF ~file.readable THEN reset
        ELSE IF ~r.ok
             THEN [r.s EXCEPT !.messagebox = "The script you loaded contains an error. See console for details."]
        ELSE [r.s EXCEPT !.file_loaded = "Loaded",
                         !.lines_loaded = <<0, n>>,
                         !.time_to_go = Sum(r.s.delay_list) + r.s.delay_for_loading,
                         !.seconds_to_next_task = first,
                         !.step_countdown_readout = Timedelta(first),
                         !.time_to_go_readout =
                             Timedelta(Sum(r.s.delay_list) + r.s.delay_for_loading)]

\* _load_automation_file that carries the accumulated delay over
_load_automation_file_KeepsAccumulator(s, file) ==
    LET reset == [s EXCEPT !.delay_list = <<>>,
                           !.absolute_time_list = <<>>,
                           !.lambda_list = <<>>,
                           !.automation_index = 0,
                           !.seconds_to_next_task = 0,
                           !.time_to_go = 0,
                           !.pause_tasks = TRUE,
                           !.buttons = _buttons_stopped_mode,
                           !.step_countdown_readout = Timedelta(0),
                           !.time_to_go_readout = Timedelta(0),
                           !.file_loaded = "No file loaded.",
                           !.lines_loaded = <<>>,
                           !.executed = <<>>]
        r == Exec(reset, file.script)
        n == Len(r.s.delay_list)
        first == IF n = 0 THEN 0 ELSE r.s.delay_list[1]
    IN  IF ~file.readable THEN reset
        ELSE IF ~r.ok
             THEN [r.s EXCEPT !.messagebox = "The script you loaded contains an error. See console for details."]
        ELSE [r.s EXCEPT !.file_loaded = "Loaded",
                         !.lines_loaded = <<0, n>>,
                         !.time_to_go = Sum(r.s.delay_list),
                         !.seconds_to_next_task = first,
                         !.step_countdown_readout = Timedelta(first),
                         !.time_to_go_readout = Timedelta(Sum(r.s.delay_list))]

_load_automation_file(s, file) ==
    LET reset == [s EXCEPT !.delay_for_loading = 0,
                           !.delay_list = <<>>,
                           !.absolute_time_list = <<>>,
                           !.lambda_list = <<>>,
                           !.automation_index = 0,
                           !.seconds_to_next_task = 0,
                           !.time_to_go = 0,
                           !.pause_tasks = TRUE,
                           !.buttons = _buttons_stopped_mode,
                           !.step_countdown_readout = Timedelta(0),
                           !.time_to_go_readout = Timedelta(0),
                           !.file_loaded = "No file loaded.",
                           !.lines_loaded = <<>>,
                           !.executed = <<>>]
        r == Exec(reset, file.script)
        n == Len(r.s.delay_list)
        first == IF n = 0 THEN 0 ELSE r.s.delay_list[1]
    IN  IF ~file.readable THEN reset
        ELSE IF ~r.ok
             THEN [r.s EXCEPT !.messagebox = "The script you loaded contains an error. See console for details."]
        ELSE [r.s EXCEPT !.file_loaded = "Loaded",
                         !.lines_loaded = <<0, n>>,
                         !.time_to_go = Sum(r.s.delay_list),
                         !.seconds_to_next_task = first,
                         !.step_countdown_readout = Timedelta(first),
                         !.time_to_go_readout = Timedelta(Sum(r.s.delay_list))]

\* ------------------------------------------------- the target widget
\* the IoT relay as its constructor leaves it, no call made on it yet
NewTarget ==
    [fields |-> [f \in TargetAttributes |->
                    IF f = "Status Selection" THEN "On" ELSE "No Reading"],
     calls |-> <<>>]

\* target_widget.get_field(name): the value, and the widget with the call
\* recorded
get_field(w, name) ==
    [value |-> w.fields[name],
     w |-> [w EXCEPT !.calls = Append(@, <<"get_field", name>>)]]

\* target_widget.set_field(name, value)
set_field(w, name, value) ==
    [w EXCEPT !.fields[name] = value,
              !.calls = Append(@, <<"set_field", name, value>>)]

\* target_widget.confirm(): the relay is sent the selected status
confirm(w) ==
    [w EXCEPT !.calls = Append(@, <<"confirm", w.fields["Status Selection"]>>)]

\* _schedule_helper that presses confirm before it sets the field
_schedule_helper_ConfirmFirst(w, field_name, new_target_value, confirm_function) ==
    LET old == get_field(w, field_name)
        w1 == IF confirm_function THEN confirm(old.w) ELSE old.w
    IN  set_field(w1, field_name, new_target_value)

\* _schedule_helper; confirm_function says whether a confirm function was
\* passed (None otherwise)
_schedule_helper(w, field_name, new_target_value, confirm_function) ==
    LET old == get_field(w, field_name)
        w1 == set_field(old.w, field_name, new_target_value)
    IN  IF confirm_function THEN confirm(w1) ELSE w1

\* execute_me(): what invoking the queued function does to the target
Invoke(function, w) ==
    IF function.kind = "action"
    THEN _schedule_helper(w, function.field, function.value, function.confirm)
    ELSE w

\* ---------------------------------------------------------- the tick
\* Call that invokes the first step of the queue whatever the cursor
Call_AlwaysFirst(s, index) ==
    [raised |-> s.lambda_list[1].raises,
     s |-> [s EXCEPT !.executed = Append(@, 0)]]

\* execute_me() or execute_me(self.parent): the step is invoked; raised says
\* whether the call raised
Call(s, index) ==
    [raised |-> s.lambda_list[index + 1].raises,
     s |-> [s EXCEPT !.executed = Append(@, index),
                     !.target = Invoke(s.lambda_list[index + 1], @)]]

\* Finish with the run left Running
Finish_StillRunning(s) ==
    LET first == IF Len(s.delay_list) = 0 THEN 0 ELSE s.delay_list[1]
    IN  [s EXCEPT !.automation_index = 0,
                  !.seconds_to_next_task = first,
                  !.time_to_go = Sum(s.delay_list),
                  !.step_countdown_readout = Timedelta(first),
                  !.time_to_go_readout = Timedelta(Sum(s.delay_list)),
                  !.buttons = [_buttons_stopped_mode EXCEPT !.label = "(finished!)"],
                  !.lines_loaded = <<0, Len(s.delay_list)>>]

\* Finish that leaves automation_index past the last step
Finish_CursorAtEnd(s) ==
    LET first == IF Len(s.delay_list) = 0 THEN 0 ELSE s.delay_list[1]
    IN  [s EXCEPT !.seconds_to_next_task = first,
                  !.time_to_go = Sum(s.delay_list),
                  !.pause_tasks = TRUE,
                  !.step_countdown_readout = Timedelta(first),
                  !.time_to_go_readout = Timedelta(Sum(s.delay_list)),
                  !.buttons = [_buttons_stopped_mode EXCEPT !.label = "(finished!)"],
                  !.lines_loaded = <<0, Len(s.delay_list)>>]

\* Finish that leaves the countdown of the last step in place
Finish_KeepsCountdown(s) ==
    [s EXCEPT !.automation_index = 0,
              !.time_to_go = Sum(s.delay_list),
              !.pause_tasks = TRUE,
              !.step_countdown_readout = Timedelta(s.seconds_to_next_task),
              !.time_to_go_readout = Timedelta(Sum(s.delay_list)),
              !.buttons = [_buttons_stopped_mode EXCEPT !.label = "(finished!)"],
              !.lines_loaded = <<0, Len(s.delay_list)>>]

\* the reset of a finished script (lines 179-189)
Finish(s) ==
    LET first == IF Len(s.delay_list) = 0 THEN 0 ELSE s.delay_list[1]
    IN  [s EXCEPT !.automation_index = 0,
                  !.seconds_to_next_task = first,
                  !.time_to_go = Sum(s.delay_list),
                  !.pause_tasks = TRUE,
                  !.step_countdown_readout = Timedelta(first),
                  !.time_to_go_readout = Timedelta(Sum(s.delay_list)),
                  !.buttons = [_buttons_stopped_mode EXCEPT !.label = "(finished!)"],
                  !.lines_loaded = <<0, Len(s.delay_list)>>]

\* Reschedule with a countdown of 0 waiting a polling interval
Reschedule_ZeroWaits(s, t) ==
    LET s1 == IF s.seconds_to_next_task < 0
              THEN [s EXCEPT !.pending = @ (+) SetToBag({t + AfterUnits(0)})]
              ELSE [s EXCEPT !.pending =
                                 @ (+) SetToBag({t + AfterUnits(PollingIntervalMs)}),
                             !.time_to_go = RoundSeconds(s.end_time - t)]
    IN  [s1 EXCEPT !.step_countdown_readout = Timedelta(s1.seconds_to_next_task),
                   !.time_to_go_readout = Timedelta(s1.time_to_go)]

\* lines 194-200: the next tick is scheduled and the readouts are set
Reschedule(s, t) ==
    LET s1 == IF s.seconds_to_next_task <= 0
              THEN [s EXCEPT !.pending = @ (+) SetToBag({t + AfterUnits(0)})]
              ELSE [s EXCEPT !.pending =
                                 @ (+) SetToBag({t + AfterUnits(PollingIntervalMs)}),
                             !.time_to_go = RoundSeconds(s.end_time - t)]
    IN  [s1 EXCEPT !.step_countdown_readout = Timedelta(s1.seconds_to_next_task),
                   !.time_to_go_readout = Timedelta(s1.time_to_go)]

\* _update_tasks that is inert only in the stopped mode
_update_tasks_StoppedOnly(s, t) ==
    IF s.buttons.label = "(stopped)" THEN s
    ELSE IF t > s.absolute_time_list[s.automation_index + 1]
    THEN LET s1 == Call(s, s.automation_index).s
             s2 == [s1 EXCEPT !.automation_index = @ + 1,
                              !.lines_loaded =
                                  <<s.automation_index + 1, Len(s.delay_list)>>]
         IN  IF s2.automation_index >= Len(s2.delay_list)
             THEN Finish(s2)
             ELSE Reschedule(
                      [s2 EXCEPT !.seconds_to_next_task =
                                     s2.delay_list[s2.automation_index + 1]], t)
    ELSE Reschedule(
             [s EXCEPT !.seconds_to_next_task =
                  RoundSeconds(s.absolute_time_list[s.automation_index + 1] - t)], t)

\* _update_tasks without the try/except: an exception of the step leaves the
\* handler
_update_tasks_NoExcept(s, t) ==
    IF s.pause_tasks THEN s
    ELSE IF t > s.absolute_time_list[s.automation_index + 1]
    THEN LET called == Call(s, s.automation_index)
             s2 == [called.s EXCEPT !.automation_index = @ + 1,
                                    !.lines_loaded =
                                        <<s.automation_index + 1, Len(s.delay_list)>>]
         IN  IF called.raised THEN called.s
             ELSE IF s2.automation_index >= Len(s2.delay_list)
             THEN Finish(s2)
             ELSE Reschedule(
                      [s2 EXCEPT !.seconds_to_next_task =
                                     s2.delay_list[s2.automation_index + 1]], t)
    ELSE Reschedule(
             [s EXCEPT !.seconds_to_next_task =
                  RoundSeconds(s.absolute_time_list[s.automation_index + 1] - t)], t)

\* _update_tasks that leaves the cursor on a step that raised
_update_tasks_Retry(s, t) ==
    IF s.pause_tasks THEN s
    ELSE IF t > s.absolute_time_list[s.automation_index + 1]
    THEN LET called == Call(s, s.automation_index)
             s1 == called.s
             s2 == [s1 EXCEPT !.automation_index = @ + 1,
                              !.lines_loaded =
                                  <<s.automation_index + 1, Len(s.delay_list)>>]
         IN  IF called.raised THEN Reschedule(s1, t)
             ELSE IF s2.automation_index >= Len(s2.delay_list)
             THEN Finish(s2)
             ELSE Reschedule(
                      [s2 EXCEPT !.seconds_to_next_task =
                                     s2.delay_list[s2.automation_index + 1]], t)
    ELSE Reschedule(
             [s EXCEPT !.seconds_to_next_task =
                  RoundSeconds(s.absolute_time_list[s.automation_index + 1] - t)], t)

\* _update_tasks that executes a step at its deadline
_update_tasks_AtDeadline(s, t) ==
    IF s.pause_tasks THEN s
    ELSE IF t >= s.absolute_time_list[s.automation_index + 1]
    THEN LET s1 == Call(s, s.automation_index).s
             s2 == [s1 EXCEPT !.automation_index = @ + 1,
                              !.lines_loaded =
                                  <<s.automation_index + 1, Len(s.delay_list)>>]
         IN  IF s2.automation_index >= Len(s2.delay_list)
             THEN Finish(s2)
             ELSE Reschedule(
                      [s2 EXCEPT !.seconds_to_next_task =
                                     s2.delay_list[s2.automation_index + 1]], t)
    ELSE Reschedule(
             [s EXCEPT !.seconds_to_next_task =
                  RoundSeconds(s.absolute_time_list[s.automation_index + 1] - t)], t)

\* _update_tasks at clock reading t
_update_tasks(s, t) ==
    IF s.pause_tasks THEN s
    ELSE IF t > s.absolute_time_list[s.automation_index + 1]
    THEN LET s1 == Call(s, s.automation_index).s \* try/except: raised or not
             s2 == [s1 EXCEPT !.automation_index = @ + 1,
                              !.lines_loaded =
                                  <<s.automation_index + 1, Len(s.delay_list)>>]
         IN  IF s2.automation_index >= Len(s2.delay_list)
             THEN Finish(s2)
             ELSE Reschedule(
                      [s2 EXCEPT !.seconds_to_next_task =
                                     s2.delay_list[s2.automation_index + 1]], t)
    ELSE Reschedule(
             [s EXCEPT !.seconds_to_next_task =
                  RoundSeconds(s.absolute_time_list[s.automation_index + 1] - t)], t)


\* ------------------------------------------------- start, pause, stop
RECURSIVE RelTimes_RawDelay(_, _)
\* RelTimes with the step at the cursor given its raw delay, not the countdown
RelTimes_RawDelay(s, rel_times) ==
    LET i == Len(rel_times)
    IN  IF i >= Len(s.delay_list) /\ i > s.automation_index THEN rel_times
        ELSE IF i < s.automation_index
        THEN RelTimes_RawDelay(s, Append(rel_times, 0))
        ELSE IF i = s.automation_index
        THEN RelTimes_RawDelay(s, Append(rel_times, s.delay_list[i + 1]))
        ELSE RelTimes_RawDelay(
                 s, Append(rel_times, s.delay_list[i + 1] + rel_times[i]))

RECURSIVE RelTimes_NotStacked(_, _)
\* RelTimes with every later step placed its own delay after the step at the
\* cursor, not after its predecessor
RelTimes_NotStacked(s, rel_times) ==
    LET i == Len(rel_times)
    IN  IF i >= Len(s.delay_list) /\ i > s.automation_index THEN rel_times
        ELSE IF i < s.automation_index
        THEN RelTimes_NotStacked(s, Append(rel_times, 0))
        ELSE IF i = s.automation_index
        THEN RelTimes_NotStacked(s, Append(rel_times, s.seconds_to_next_task))
        ELSE RelTimes_NotStacked(
                 s, Append(rel_times, s.delay_list[i + 1]
                                          + rel_times[s.automation_index + 1]))

RECURSIVE RelTimes(_, _)
\* lines 214-219: rel_times as the loops append to it, until it has one entry
\* per step
RelTimes(s, rel_times) ==
    LET i == Len(rel_times)
    IN  IF i >= Len(s.delay_list) /\ i > s.automation_index THEN rel_times
        ELSE IF i < s.automation_index THEN RelTimes(s, Append(rel_times, 0))
        ELSE IF i = s.automation_index
        THEN RelTimes(s, Append(rel_times, s.seconds_to_next_task))
        ELSE RelTimes(s, Append(rel_times, s.delay_list[i + 1] + rel_times[i]))

\* _start_automated_tasks without the test for an empty queue
_start_automated_tasks_NoEmptyCheck(s, t0, connected) ==
    IF ~connected
        THEN [s EXCEPT !.messagebox = "Please open serial communications before starting an automation script."]
    ELSE LET rel_times == RelTimes(s, <<>>)
             abs == [i \in 1..Len(rel_times) |->
                        rel_times[i] * TicksPerSecond + t0]
             s1 == [s EXCEPT !.absolute_time_list = abs,
                             !.end_time = abs[Len(abs)],
                             !.buttons = _buttons_running_mode,
                             !.pause_tasks = FALSE,
                             !.executed = IF s.buttons.start_text = "Resume"
                                          THEN @ ELSE <<>>]
         IN  _update_tasks(s1, t0)

\* _start_automated_tasks without the test of parent.serial_connected
_start_automated_tasks_IgnoresTransport(s, t0, connected) ==
    IF Len(s.delay_list) = 0
        THEN [s EXCEPT !.messagebox = "No script is loaded."]
    ELSE LET rel_times == RelTimes(s, <<>>)
             abs == [i \in 1..Len(rel_times) |->
                        rel_times[i] * TicksPerSecond + t0]
             s1 == [s EXCEPT !.absolute_time_list = abs,
                             !.end_time = abs[Len(abs)],
                             !.buttons = _buttons_running_mode,
                             !.pause_tasks = FALSE,
                             !.executed = IF s.buttons.start_text = "Resume"
                                          THEN @ ELSE <<>>]
         IN  _update_tasks(s1, t0)

\* _start_automated_tasks at clock reading t0
_start_automated_tasks(s, t0, connected) ==
    IF Len(s.delay_list) = 0
        THEN [s EXCEPT !.messagebox = "No script is loaded."]
    ELSE IF ~connected
        THEN [s EXCEPT !.messagebox = "Please open serial communications before starting an automation script."]
    ELSE LET rel_times == RelTimes(s, <<>>)
             abs == [i \in 1..Len(rel_times) |->
                        rel_times[i] * TicksPerSecond + t0]
             s1 == [s EXCEPT !.absolute_time_list = abs,
                             !.end_time = abs[Len(abs)],
                             !.buttons = _buttons_running_mode,
                             !.pause_tasks = FALSE,
                             !.executed = IF s.buttons.start_text = "Resume"
                                          THEN @ ELSE <<>>]
         IN  _update_tasks(s1, t0)

\* _pause_automated_tasks that forgets the deadlines
_pause_automated_tasks_ClearsDeadlines(s) ==
    [s EXCEPT !.buttons = _buttons_paused_mode, !.pause_tasks = TRUE,
              !.absolute_time_list = <<>>]

_pause_automated_tasks(s) ==
    [s EXCEPT !.buttons = _buttons_paused_mode, !.pause_tasks = TRUE]

\* _stop_automated_tasks that leaves automation_index at the interrupted step
_stop_automated_tasks_KeepsCursor(s) ==
    [s EXCEPT !.buttons = _buttons_stopped_mode,
              !.pause_tasks = TRUE,
              !.time_to_go = Sum(s.delay_list),
              !.seconds_to_next_task = s.delay_list[1],
              !.step_countdown_readout = Timedelta(s.delay_list[1]),
              !.time_to_go_readout = Timedelta(Sum(s.delay_list)),
              !.lines_loaded = <<0, Len(s.delay_list)>>,
              !.executed = <<>>]

\* _stop_automated_tasks that keeps the countdown of the interrupted step
_stop_automated_tasks_KeepsCountdown(s) ==
    [s EXCEPT !.buttons = _buttons_stopped_mode,
              !.pause_tasks = TRUE,
              !.automation_index = 0,
              !.time_to_go = Sum(s.delay_list),
              !.step_countdown_readout = Timedelta(s.seconds_to_next_task),
              !.time_to_go_readout = Timedelta(Sum(s.delay_list)),
              !.lines_loaded = <<0, Len(s.delay_list)>>,
              !.executed = <<>>]

_stop_automated_tasks(s) ==
    [s EXCEPT !.buttons = _buttons_stopped_mode,
              !.pause_tasks = TRUE,
              !.automation_index = 0,
              !.time_to_go = Sum(s.delay_list),
              !.seconds_to_next_task = s.delay_list[1],
              !.step_countdown_readout = Timedelta(s.delay_list[1]),
              !.time_to_go_readout = Timedelta(Sum(s.delay_list)),
              !.lines_loaded = <<0, Len(s.delay_list)>>,
              !.executed = <<>>]

\* ------------------------------------------------------------ scripts
\* the calls a script of the model is made of
Delay1 == DelayCall(<<IntPart(0), IntPart(0), IntPart(1)>>)       \* "0:00:01"
DelayNegative == DelayCall(<<IntPart(0), IntPart(0), IntPart(-1)>>) \* "0:00:-1"
DelayMalformed == DelayCall(<<IntPart(0), IntPart(1)>>)           \* "0:01"
FunctionOk == FunctionCall(UserFunction(FALSE))
FunctionRaises == FunctionCall(UserFunction(TRUE))
ActionUnknownField == ActionCall("No Such Field", "On", TRUE)

Calls ==
    {Delay1, DelayNegative, DelayMalformed, FunctionOk, FunctionRaises,
     ActionUnknownField}

RECURSIVE ScriptsOfLen(_)
ScriptsOfLen(n) ==
    IF n = 0 THEN {<<>>}
    ELSE {Append(sc, c) : sc \in ScriptsOfLen(n - 1), c \in Calls}

\* longer scripts: a delayed step, a step with a negative delay, two steps
\* with no delay, two delayed steps, a raising step before a step with no
\* delay, three steps of which the later two are delayed, a step before a
\* failing call
LongScripts ==
    { <<Delay1, FunctionOk>>,
      <<DelayNegative, FunctionOk>>,
      <<FunctionOk, FunctionOk>>,
      <<Delay1, FunctionOk, Delay1, FunctionOk>>,
      <<Delay1, FunctionRaises, FunctionOk>>,
      <<FunctionOk, Delay1, FunctionOk, Delay1, FunctionOk>>,
      <<FunctionOk, DelayMalformed>>,
      <<Delay1, FunctionOk, ActionUnknownField>> }

\* every script of at most MaxScriptLen calls, and the longer ones
Scripts == UNION {ScriptsOfLen(n) : n \in 0..MaxScriptLen} \cup LongScripts

Files == {Unreadable} \cup {ScriptFile(sc) : sc \in Scripts}

\* ------------------------------------------------- the Picarro widget
\* a text and a number as a field shows them or a response holds them;
\* numbers are in units of 10^-5
Text(t) == <<"text", t>>
Num(v) == <<"num", v>>

\* the readout fields of the widget (lines 34-39)
PicarroFields == {"CH4 (ppm)", "CO2 (ppm)", "H2O (vol %)"}

\* PicarroCRDWidget.__init__: the readouts show 'No Reading', num_fails is 0;
\* calls are the set_field calls of the last handler
NewPicarro ==
    [fields |-> [f \in PicarroFields |-> Text("No Reading")],
     calls |-> <<>>, num_fails |-> 0]

\* round(float(x), ndigits), unit being 10^(5 - ndigits): halves go to the
\* even multiple
Round(v, unit) ==
    LET q == v \div unit
        r == v % unit
    IN  IF 2 * r < unit THEN q * unit
        ELSE IF 2 * r > unit THEN (q + 1) * unit
        ELSE IF q % 2 = 0 THEN q * unit ELSE (q + 1) * unit

\* for field in (...): self.set_field(field, value)
SetReadouts(w, value) ==
    set_field(set_field(set_field(w, "CH4 (ppm)", value),
                        "CO2 (ppm)", value),
              "H2O (vol %)", value)

\* on_serial_open (lines 42-50)
on_serial_open(w, success) ==
    LET w0 == [w EXCEPT !.calls = <<>>]
    IN  IF success # TRUE THEN SetReadouts(w0, Text("No Reading")) ELSE w0

\* on_serial_close (lines 88-91)
on_serial_close(w) == SetReadouts([w EXCEPT !.calls = <<>>], Text("No Reading"))

\* on_serial_read showing 'Read Error' from the third failure on
on_serial_read_FromThird(w, resp) ==
    LET w0 == [w EXCEPT !.calls = <<>>]
        values == resp.values
    IN  IF /\ ~resp.raises
           /\ Len(values) = 7
           /\ \A i \in 3..5 : values[i][1] = "num"
        THEN LET ch4 == Num(Round(values[3][2], 1000))
                 h2o == Num(Round(values[4][2], 10))
                 co2 == Num(Round(values[5][2], 1000))
                 w1 == set_field(w0, "CH4 (ppm)", ch4)
                 w2 == set_field(w1, "CO2 (ppm)", co2)
                 w3 == set_field(w2, "H2O (vol %)", h2o)
             IN  [ret |-> <<"True">>, w |-> [w3 EXCEPT !.num_fails = 0]]
        ELSE LET w1 == [w0 EXCEPT !.num_fails = @ + 1]
                 w2 == IF w1.num_fails >= 3
                       THEN SetReadouts(w1, Text("Read Error")) ELSE w1
             IN  [ret |-> IF resp.raises THEN <<"UnboundLocalError">>
                          ELSE <<"message", values>>,
                  w |-> w2]

\* on_serial_read that leaves num_fails as it is after a valid response
on_serial_read_NoReset(w, resp) ==
    LET w0 == [w EXCEPT !.calls = <<>>]
        values == resp.values
    IN  IF /\ ~resp.raises
           /\ Len(values) = 7
           /\ \A i \in 3..5 : values[i][1] = "num"
        THEN LET ch4 == Num(Round(values[3][2], 1000))
                 h2o == Num(Round(values[4][2], 10))
                 co2 == Num(Round(values[5][2], 1000))
                 w1 == set_field(w0, "CH4 (ppm)", ch4)
                 w2 == set_field(w1, "CO2 (ppm)", co2)
                 w3 == set_field(w2, "H2O (vol %)", h2o)
             IN  [ret |-> <<"True">>, w |-> w3]
        ELSE LET w1 == [w0 EXCEPT !.num_fails = @ + 1]
                 w2 == IF w1.num_fails > 3
                       THEN SetReadouts(w1, Text("Read Error")) ELSE w1
             IN  [ret |-> IF resp.raises THEN <<"UnboundLocalError">>
                          ELSE <<"message", values>>,
                  w |-> w2]

\* on_serial_read (lines 57-86) on the line the second readline returns,
\* resp.values being resp.split(), or on a readline that raises: the widget
\* it leaves and what it returns; the message names resp, which is unbound
\* when readline raised
on_serial_read(w, resp) ==
    LET w0 == [w EXCEPT !.calls = <<>>]
        values == resp.values
    IN  IF /\ ~resp.raises
           /\ Len(values) = 7
           /\ \A i \in 3..5 : values[i][1] = "num"
        THEN LET ch4 == Num(Round(values[3][2], 1000))
                 h2o == Num(Round(values[4][2], 10))
                 co2 == Num(Round(values[5][2], 1000))
                 w1 == set_field(w0, "CH4 (ppm)", ch4)
                 w2 == set_field(w1, "CO2 (ppm)", co2)
                 w3 == set_field(w2, "H2O (vol %)", h2o)
             IN  [ret |-> <<"True">>, w |-> [w3 EXCEPT !.num_fails = 0]]
        ELSE LET w1 == [w0 EXCEPT !.num_fails = @ + 1]
                 w2 == IF w1.num_fails > 3
                       THEN SetReadouts(w1, Text("Read Error")) ELSE w1
             IN  [ret |-> IF resp.raises THEN <<"UnboundLocalError">>
                          ELSE <<"message", values>>,
                  w |-> w2]

\* ------------------------------------------------------ state machine
\* the widget object as __init__ leaves it, nothing queued in the Tk event loop
NewWidget ==
    [delay_for_loading |-> 0, delay_list |-> <<>>,
     absolute_time_list |-> <<>>, lambda_list |-> <<>>,
     automation_index |-> 0, seconds_to_next_task |-> 0, time_to_go |-> 0,
     pause_tasks |-> TRUE, end_time |-> 0, buttons |-> _buttons_stopped_mode,
     file_loaded |-> "No file loaded.", lines_loaded |-> <<>>,
     step_countdown_readout |-> Timedelta(0),
     time_to_go_readout |-> Timedelta(0),
     pending |-> EmptyBag, executed |-> <<>>, messagebox |-> "",
     target |-> NewTarget]

\* the widget after __init__, nothing queued in the Tk event loop
\* no script file is being executed one call at a time
NoExec == [script |-> <<>>, pc |-> 0, raised |-> FALSE]

Constructed ==
    /\ delay_for_loading = 0
    /\ delay_list = <<>>
    /\ absolute_time_list = <<>>
    /\ lambda_list = <<>>
    /\ automation_index = 0
    /\ seconds_to_next_task = 0
    /\ time_to_go = 0
    /\ pause_tasks = TRUE
    /\ end_time = 0
    /\ buttons = _buttons_stopped_mode
    /\ file_loaded = "No file loaded."
    /\ lines_loaded = <<>>
    /\ step_countdown_readout = Timedelta(0)
    /\ time_to_go_readout = Timedelta(0)
    /\ pending = EmptyBag
    /\ executed = <<>>
    /\ now = 0
    /\ paused_at = -1
    /\ messagebox = ""
    /\ target = NewTarget
    /\ began_in = ""
    /\ picarro = [w |-> NewPicarro, returned |-> <<"None">>, failures |-> 0]

Init == Constructed /\ exec_state = NoExec

\* the Load button
Load ==
    /\ buttons.load = "normal"
    /\ \E r \in {_load_automation_file(Self, file) : file \in Files} : Becomes(r)
    /\ paused_at' = -1
    /\ began_in' = ""
    /\ UNCHANGED <<now, exec_state, picarro>>

\* the Start / Resume button, pressed while self.parent.serial_connected
\* has the value connected
StartWith(connected) ==
    /\ buttons.start = "normal"
    /\ BagCardinality(pending) < MaxPending
    /\ Becomes(_start_automated_tasks(Self, now, connected))
    /\ paused_at' = IF buttons.start_text = "Resume" THEN paused_at ELSE -1
    /\ began_in' = IF buttons'.label \notin {"(running)", "(paused)"} THEN ""
                   ELSE IF connected /\ buttons.start_text = "Start"
                   THEN buttons.label ELSE began_in
    /\ UNCHANGED <<now, exec_state, picarro>>

Start == \E connected \in BOOLEAN : StartWith(connected)

\* the Pause button
Pause ==
    /\ buttons.pause = "normal"
    /\ Becomes(_pause_automated_tasks(Self))
    /\ paused_at' = now
    /\ UNCHANGED <<now, exec_state, began_in, picarro>>

\* the Stop button
Stop ==
    /\ buttons.stop = "normal"
    /\ Becomes(_stop_automated_tasks(Self))
    /\ paused_at' = IF buttons.label = "(paused)" THEN paused_at ELSE -1
    /\ began_in' = ""
    /\ UNCHANGED <<now, exec_state, picarro>>

\* a root.after callback that is due fires
Tick ==
    /\ \E due \in BagToSet(pending) :
          /\ due <= now
          /\ Becomes(_update_tasks(
                 [Self EXCEPT !.pending = @ (-) SetToBag({due})], now))
    /\ began_in' = IF buttons'.label \in {"(running)", "(paused)"}
                   THEN began_in ELSE ""
    /\ UNCHANGED <<now, paused_at, exec_state, picarro>>

\* time passes; the event loop fires a timer at most MaxLate units late
AdvanceClock ==
    /\ now < MaxTime
    /\ \A due \in BagToSet(pending) : now + 1 <= due + MaxLate
    /\ now' = now + 1
    /\ messagebox' = ""
    /\ UNCHANGED <<delay_for_loading, delay_list, absolute_time_list, lambda_list,
                   automation_index, seconds_to_next_task, time_to_go, pause_tasks,
                   end_time, buttons, file_loaded, lines_loaded,
                   step_countdown_readout, time_to_go_readout, pending, executed,
                   paused_at, exec_state, target, began_in, picarro>>

Next == Load \/ Start \/ Pause \/ Stop \/ Tick \/ AdvanceClock

Spec == Init /\ [][Next]_vars


\* -------------------------------------------- uninterrupted runs
\* the clock units a run of the queued steps takes at most: every delay, and
\* for every step a polling interval and the lateness of its tick
RunLength ==
    TicksPerSecond * Sum([i \in 1..Len(delay_list) |->
                             IF delay_list[i] > 0 THEN delay_list[i] ELSE 0])
        + Len(delay_list) * (AfterUnits(PollingIntervalMs) + MaxLate + 1)

\* the Start button, pressed early enough for the run to end before the
\* clock stops
StartInTime == now + RunLength <= LiveMaxTime /\ Start

\* time passes, up to LiveMaxTime
AdvanceClockLive ==
    /\ now < LiveMaxTime
    /\ \A due \in BagToSet(pending) : now + 1 <= due + MaxLate
    /\ now' = now + 1
    /\ messagebox' = ""
    /\ UNCHANGED <<delay_for_loading, delay_list, absolute_time_list, lambda_list,
                   automation_index, seconds_to_next_task, time_to_go, pause_tasks,
                   end_time, buttons, file_loaded, lines_loaded,
                   step_countdown_readout, time_to_go_readout, pending, executed,
                   paused_at, exec_state, target, began_in, picarro>>

\* no pause and no stop is issued
NextLive == Load \/ StartInTime \/ Tick \/ AdvanceClockLive

\* the event loop fires a due timer callback, and time passes
LiveSpec ==
    Init /\ [][NextLive]_vars /\ WF_vars(Tick) /\ WF_vars(AdvanceClockLive)

\* ------------------------------------------------ a busy event loop
\* four steps with the delays 0 s, 1 s, 0 s and 2 s
LateScript ==
    <<FunctionOk, Delay1, FunctionOk, FunctionOk, Delay1, Delay1, FunctionOk>>

\* the Load button, the dialog returning the file of LateScript
LoadLate ==
    /\ buttons.load = "normal"
    /\ Becomes(_load_automation_file(Self, ScriptFile(LateScript)))
    /\ paused_at' = -1
    /\ began_in' = ""
    /\ UNCHANGED <<now, exec_state, picarro>>

\* time passes; the event loop fires a timer at most LateMaxLate units late
AdvanceClockLate ==
    /\ now < LateMaxTime
    /\ \A due \in BagToSet(pending) : now + 1 <= due + LateMaxLate
    /\ now' = now + 1
    /\ messagebox' = ""
    /\ UNCHANGED <<delay_for_loading, delay_list, absolute_time_list, lambda_list,
                   automation_index, seconds_to_next_task, time_to_go, pause_tasks,
                   end_time, buttons, file_loaded, lines_loaded,
                   step_countdown_readout, time_to_go_readout, pending, executed,
                   paused_at, exec_state, target, began_in, picarro>>

NextLate == LoadLate \/ Start \/ Pause \/ Stop \/ Tick \/ AdvanceClockLate

\* one script, and timer callbacks that the event loop may fire late
LateSpec == Init /\ [][NextLate]_vars

\* ------------------------------------------ a script file, call by call
\* the delay "1:01:01", and an action on a field of the target widget
DelayHMS == DelayCall(<<IntPart(1), IntPart(1), IntPart(1)>>)
ActionKnownField == ActionCall("Status Selection", "On", TRUE)

ActionNoConfirm == ActionCall("Status Selection", "Off", FALSE)

ExecCalls == Calls \cup {DelayHMS, ActionKnownField, ActionNoConfirm}

RECURSIVE ExecScriptsOfLen(_)
ExecScriptsOfLen(n) ==
    IF n = 0 THEN {<<>>}
    ELSE {Append(sc, c) : sc \in ExecScriptsOfLen(n - 1), c \in ExecCalls}

ExecScripts == UNION {ExecScriptsOfLen(n) : n \in 0..MaxExecLen}

\* exec(script, ...) is about to run a file on the widget as the load's
\* reset leaves it
ExecInit ==
    /\ Constructed
    /\ exec_state \in {[script |-> sc, pc |-> 0, raised |-> FALSE] :
                          sc \in ExecScripts}

\* the next call of the script runs; a call that raises ends exec
ExecCall ==
    /\ exec_state.pc < Len(exec_state.script)
    /\ ~exec_state.raised
    /\ LET r == Primitive(Self, exec_state.script[exec_state.pc + 1])
       IN  /\ Becomes(r.s)
           /\ exec_state' = [exec_state EXCEPT !.pc = @ + 1, !.raised = ~r.ok]
    /\ UNCHANGED <<now, paused_at, began_in, picarro>>

\* exec has returned; the next queued function is invoked, as the tick that
\* finds its step due invokes it
ExecInvoke ==
    /\ exec_state.pc = Len(exec_state.script)
    /\ ~exec_state.raised
    /\ Len(executed) < Len(lambda_list)
    /\ Becomes(Call(Self, Len(executed)).s)
    /\ UNCHANGED <<now, paused_at, began_in, exec_state, picarro>>

ExecNext == ExecCall \/ ExecInvoke

ExecSpec == ExecInit /\ [][ExecNext]_vars

\* ------------------------------------------------------------- modes
\* the run state the widget shows
Mode == buttons.label

\* a timer callback fires and finds the run Running
RunningTick == Tick /\ ~pause_tasks

\* a timer callback fires, finds the run Running and the current step due
ExecutingTick ==
    RunningTick /\ now > absolute_time_list[automation_index + 1]

\* the indices 0 .. n-1 in order
UpTo(n) == [i \in 1..n |-> i - 1]


\* ------------------------------------------------------------- claims

\* C1: in every reachable state at most one tick callback is scheduled and
\* not yet fired.
C1_AtMostOnePendingTick == BagCardinality(pending) <= 1

\* C2: a load that failed part-way (no file is shown as loaded) leaves the
\* step queue empty, so none of the steps queued before the failure can run.
C2_FailedLoadLeavesQueueEmpty ==
    file_loaded = "No file loaded." =>
        delay_list = <<>> /\ lambda_list = <<>> /\ executed = <<>>


\* the Resume button is pressed on a paused run and the start is accepted
Resume == Mode = "(paused)" /\ StartWith(TRUE)

\* C3 (as claimed): a resume puts the deadline of the step at the cursor, not
\* yet passed when the run was paused, exactly as far after the resume instant
\* as it was after the pause instant.
C3_ResumePreservesRemaining ==
    [][(Resume /\ absolute_time_list[automation_index + 1] >= paused_at) =>
          absolute_time_list'[automation_index + 1] - now
              = absolute_time_list[automation_index + 1] - paused_at]_vars

\* C3 (amended): a pause of any length leaves the cursor and the countdown
\* seconds_to_next_task as the last tick stored them, and a resume puts the
\* deadline of the step at the cursor exactly that many seconds after the
\* resume instant.
C3_ResumeKeepsCountdown ==
    [][/\ (Mode = "(paused)" /\ Mode' = "(paused)") =>
              /\ seconds_to_next_task' = seconds_to_next_task
              /\ automation_index' = automation_index
       /\ Resume =>
              absolute_time_list'[automation_index + 1]
                  = now + seconds_to_next_task * TicksPerSecond]_vars

\* C3 witness: a run just resumed at the second step after a pause of
\* positive length; the step is due the countdown of 1 s after the resume
\* instant, and was due earlier than that before the pause
C3_Witness ==
    /\ Mode = "(running)"
    /\ delay_list = <<1, 1>>
    /\ automation_index = 1
    /\ 0 <= paused_at /\ paused_at < now
    /\ seconds_to_next_task = 1
    /\ absolute_time_list = <<now, now + TicksPerSecond>>


RECURSIVE SumFromTo(_, _, _)
\* s[a] + ... + s[b]
SumFromTo(s, a, b) == IF a > b THEN 0 ELSE s[a] + SumFromTo(s, a + 1, b)

\* the reference plan of a start at clock reading t0 with cursor c and
\* countdown togo over the delays d, in clock units (1-based step i)
Plan(d, c, togo, t0, i) ==
    IF i <= c THEN t0
    ELSE t0 + (togo + SumFromTo(d, c + 2, i)) * TicksPerSecond

\* C4: an accepted start or resume at t0 with cursor c computes one deadline
\* per step: t0 for the steps before c, t0 + seconds_to_next_task for step c,
\* and for every later step the deadline of its predecessor plus its own
\* delay; end_time is the deadline of the last step.
C4_DeadlinesFollowPlan ==
    [][(StartWith(TRUE) /\ delay_list # <<>>) =>
          /\ Len(absolute_time_list') = Len(delay_list)
          /\ \A i \in 1..Len(delay_list) :
                 absolute_time_list'[i] =
                     Plan(delay_list, automation_index, seconds_to_next_task,
                          now, i)
          /\ \A i \in (automation_index + 2)..Len(delay_list) :
                 absolute_time_list'[i] - absolute_time_list'[i - 1]
                     = delay_list[i] * TicksPerSecond
          /\ end_time' = absolute_time_list'[Len(delay_list)]]_vars

\* C4 witness: a run of three steps just resumed at the second step with a
\* countdown of 0 s; the third step keeps its own delay of 1 s
C4_Witness ==
    /\ Mode = "(running)"
    /\ delay_list = <<0, 1, 1>>
    /\ automation_index = 1
    /\ 0 <= paused_at
    /\ absolute_time_list = <<now, now, now + TicksPerSecond>>
    /\ end_time = now + TicksPerSecond


\* the object's fields a tick can write, the timer queue aside
TickFrame ==
    <<delay_for_loading, delay_list, absolute_time_list, lambda_list,
      automation_index, seconds_to_next_task, time_to_go, pause_tasks, end_time,
      buttons, file_loaded, lines_loaded, step_countdown_readout,
      time_to_go_readout, executed>>

\* C5: a tick callback that fires while the run is not Running executes no
\* step, changes no field and no readout, and schedules no further tick.
C5_TickInertUnlessRunning ==
    [][(Tick /\ Mode # "(running)") =>
          /\ UNCHANGED TickFrame
          /\ BagCardinality(pending') = BagCardinality(pending) - 1]_vars

\* C5 witness: a paused run whose tick, scheduled before the pause, has fired
\* and left nothing scheduled
C5_Witness ==
    /\ Mode = "(paused)"
    /\ pending = EmptyBag
    /\ paused_at = now
    /\ absolute_time_list # <<>>

\* C6: a step that raises in a tick does not halt the run: the cursor still
\* advances by one and the run stays Running, or the run is Finished if the
\* step was the last; a finished run has invoked every step, in order.
C6_RaisingStepDoesNotHalt ==
    /\ [][(ExecutingTick /\ lambda_list[automation_index + 1].raises) =>
             /\ executed' = Append(executed, automation_index)
             /\ IF automation_index + 1 < Len(delay_list)
                THEN /\ automation_index' = automation_index + 1
                     /\ Mode' = "(running)" /\ ~pause_tasks'
                     /\ BagCardinality(pending') = BagCardinality(pending)
                ELSE Mode' = "(finished!)"]_vars
    /\ [](Mode = "(finished!)" => executed = UpTo(Len(delay_list)))

\* C6 witness: the run of [f_throws, f_ok] is Finished with both invoked
C6_Witness ==
    /\ Mode = "(finished!)"
    /\ Len(lambda_list) = 2
    /\ lambda_list[1].raises /\ ~lambda_list[2].raises
    /\ executed = <<0, 1>>

\* C7: when a tick executes a step whose successor has a delay of 0, the next
\* tick is scheduled with no delay and the successor is already due, and a
\* tick that finds the run Running and the current step due executes it.
C7_ZeroDelayStepInSameCascade ==
    [][/\ (ExecutingTick /\ automation_index + 1 < Len(delay_list)
                         /\ delay_list[automation_index + 2] = 0) =>
              /\ CopiesIn(now, pending') >= 1
              /\ BagCardinality(pending') = BagCardinality(pending)
              /\ now > absolute_time_list'[automation_index' + 1]
       /\ ExecutingTick => executed' = Append(executed, automation_index)]_vars

\* C7 witness: the steps with delays 1 s and 0 s have both executed at the
\* first clock reading past their common deadline
C7_Witness ==
    /\ delay_list = <<1, 0>>
    /\ executed = <<0, 1>>
    /\ absolute_time_list[1] = absolute_time_list[2]
    /\ now = absolute_time_list[2] + 1

\* C8: the tick that executes the last step leaves the run Finished with the
\* cursor at 0, the progress readout "0/N", ticking disabled, and no tick
\* scheduled by it.
C8_LastStepFinishes ==
    [][(ExecutingTick /\ automation_index + 1 = Len(delay_list)) =>
          /\ Mode' = "(finished!)"
          /\ automation_index' = 0
          /\ lines_loaded' = <<0, Len(delay_list)>>
          /\ pause_tasks'
          /\ BagCardinality(pending') = BagCardinality(pending) - 1
          /\ \A due \in BagToSet(pending') :
                 CopiesIn(due, pending') <= CopiesIn(due, pending)]_vars

\* C8 witness: a finished run of two steps
C8_Witness ==
    /\ Mode = "(finished!)"
    /\ executed = <<0, 1>>
    /\ automation_index = 0
    /\ lines_loaded = <<0, 2>>
    /\ pending = EmptyBag

\* C10: Stop pressed while Running leaves the mode Stopped, the cursor at 0,
\* seconds_to_next_task at the raw delay of step 0, the total time remaining
\* at the sum of all delays and the progress readout at "0/N".
C10_StopResets ==
    [][(Stop /\ Mode = "(running)") =>
          /\ Mode' = "(stopped)"
          /\ pause_tasks'
          /\ automation_index' = 0
          /\ seconds_to_next_task' = delay_list[1]
          /\ time_to_go' = Sum(delay_list)
          /\ lines_loaded' = <<0, Len(delay_list)>>
          /\ step_countdown_readout' = Timedelta(delay_list[1])
          /\ time_to_go_readout' = Timedelta(Sum(delay_list))
          /\ delay_list' = delay_list]_vars

\* C10 witness: a run stopped at its second step, whose countdown had reached
\* 0 s, shows the delay of 1 s of step 0
C10_Witness ==
    /\ Mode = "(stopped)"
    /\ delay_list = <<1, 1>>
    /\ absolute_time_list # <<>>
    /\ now >= absolute_time_list[2]
    /\ automation_index = 0
    /\ seconds_to_next_task = 1
    /\ time_to_go = 2


\* C9: with the clock advancing, due ticks firing and no pause or stop, a run
\* that was started ends Finished, having executed all its steps in order.
C9_RunFinishes ==
    (Mode = "(running)") ~>
        (Mode = "(finished!)" /\ executed = UpTo(Len(delay_list)))

\* C9 witness: an uninterrupted run of three steps is Finished
C9_Witness ==
    /\ Mode = "(finished!)"
    /\ delay_list = <<0, 1, 1>>
    /\ executed = <<0, 1, 2>>

\* C11: a start with no step queued is rejected: the mode stays Stopped,
\* no deadline is computed, no tick is scheduled and no field of the
\* automation changes.
C11_EmptyStartRejected ==
    [][(delay_list = <<>> /\ Start)
       => /\ UNCHANGED <<TickFrame, pending>>
          /\ Mode' = "(stopped)"
          /\ absolute_time_list' = <<>>
          /\ messagebox' = "No script is loaded."]_vars

\* start was pressed after a file without steps was loaded
C11_Witness ==
    /\ messagebox = "No script is loaded."
    /\ file_loaded = "Loaded"
    /\ lines_loaded = <<0, 0>>
    /\ Mode = "(stopped)"
    /\ pending = EmptyBag

\* C12: a start or resume while the serial connection is not open changes
\* nothing: mode, cursor, deadlines, countdown values and the pending
\* ticks stay as they were.
C12_NotConnectedStartRejected ==
    [][StartWith(FALSE) => UNCHANGED <<TickFrame, pending>>]_vars

\* resume was pressed, the connection closed, while a paused run had a tick
\* pending
C12_Witness ==
    /\ messagebox = "Please open serial communications before starting an automation script."
    /\ Mode = "(paused)"
    /\ automation_index = 1
    /\ pending # EmptyBag

\* C15: a pause of a Running run moves the mode to Paused and leaves the
\* cursor, the deadlines, the queue and seconds_to_next_task as they were.
C15_PauseKeepsPosition ==
    [][Pause
       => /\ Mode = "(running)"
          /\ Mode' = "(paused)"
          /\ UNCHANGED <<automation_index, absolute_time_list, delay_list,
                         lambda_list, seconds_to_next_task>>]_vars

\* the run was paused just now, a second before its second step
C15_Witness ==
    /\ Mode = "(paused)"
    /\ paused_at = now
    /\ automation_index = 1
    /\ Len(absolute_time_list) = 2
    /\ seconds_to_next_task = 1

\* C16: the steps of a run are invoked in load order: the invoked indices
\* are 0, 1, 2, ... with none skipped, up to the cursor while the run is
\* Running or Paused and up to the last step once it is Finished.
C16_ExecutedInLoadOrder ==
    /\ executed = UpTo(Len(executed))
    /\ Mode \in {"(running)", "(paused)"} => Len(executed) = automation_index
    /\ Mode = "(finished!)" => Len(executed) = Len(delay_list)

\* two of three steps were invoked in a run that was paused and resumed
C16_Witness ==
    /\ executed = <<0, 1>>
    /\ Len(delay_list) = 3
    /\ Mode = "(running)"
    /\ paused_at >= 0

\* C17: from a start at cursor 0 to the end of the run, no step is invoked
\* twice, whether or not it raised and whatever stale tick callbacks fire.
C17_NoStepInvokedTwice ==
    \A i, j \in 1..Len(executed) : i # j => executed[i] # executed[j]

\* a run whose first step raised has finished after a pause and a resume,
\* with a tick callback still pending
C17_Witness ==
    /\ Len(lambda_list) = 2
    /\ lambda_list[1].raises
    /\ executed = <<0, 1>>
    /\ Mode = "(finished!)"
    /\ paused_at >= 0
    /\ pending # EmptyBag

\* the indices of the steps a handler invokes: all of executed after a
\* fresh start, the ones added to executed otherwise
NewlyInvoked ==
    IF buttons.start_text = "Start" /\ absolute_time_list' # absolute_time_list
    THEN {executed'[k] : k \in 1..Len(executed')}
    ELSE {executed'[k] : k \in (Len(executed) + 1)..Len(executed')}

\* C18: a step is invoked only by a handler that reads a clock past the
\* step's deadline, never at or before the deadline.
C18_ExecutesOnlyPastDeadline ==
    [][\A index \in NewlyInvoked :
          now > absolute_time_list'[index + 1]]_vars

\* the second step was invoked by the first tick past its deadline
C18_Witness ==
    /\ Len(executed) = 2
    /\ Len(delay_list) = 3
    /\ Mode = "(running)"
    /\ now = absolute_time_list[2] + 1

\* the fields a load assigns
LoadedFields(s) ==
    <<s.delay_for_loading, s.delay_list, s.absolute_time_list, s.lambda_list,
      s.automation_index, s.seconds_to_next_task, s.time_to_go, s.pause_tasks,
      s.buttons, s.file_loaded, s.lines_loaded, s.step_countdown_readout,
      s.time_to_go_readout>>

\* what a load leaves of a widget that has never held a script
FreshLoads ==
    {LoadedFields(_load_automation_file(NewWidget, file)) : file \in Files}

\* the state is one a load leaves of a widget that has never held a script
FreshlyLoaded ==
    /\ Mode = "(stopped)"
    /\ automation_index = 0
    /\ absolute_time_list = <<>>
    /\ LoadedFields(Self) \in FreshLoads

\* C19: a load discards what was queued and resets the run state before
\* the calls of the new script run: it leaves the mode Stopped, the cursor
\* 0, no deadlines, and the queue, the pending-delay accumulator and the
\* countdown values that loading some file into a widget that has never
\* held a script leaves.  (Load => FreshlyLoaded', contraposed.)
C19_LoadStartsFromReset ==
    [][~FreshlyLoaded' => ~Load]_vars

\* a file was loaded after a run
C19_Witness ==
    /\ end_time > 0
    /\ file_loaded = "Loaded"
    /\ absolute_time_list = <<>>
    /\ delay_list = <<1>>
    /\ Mode = "(stopped)"

\* C20: the queue changes only while the mode is Stopped or Finished:
\* while the mode is Running or Paused the load button is disabled and no
\* handler changes the queued delays or functions.
C20_QueueFixedDuringRun ==
    [][(Mode \in {"(running)", "(paused)"})
       => /\ buttons.load = "disabled"
          /\ UNCHANGED <<delay_list, lambda_list>>]_vars

\* a run of two steps is paused before its second step
C20_Witness ==
    /\ Mode = "(paused)"
    /\ buttons.load = "disabled"
    /\ Len(delay_list) = 2
    /\ automation_index = 1

\* C21: a start after a run has finished begins at step 0 and computes
\* the deadlines a start right after the load computes: for every step the
\* start instant plus the delays of the steps up to it.
C21_FinishedStartsLikeLoaded ==
    [][(/\ delay_list # <<>>
        /\ Mode = "(finished!)" \/ absolute_time_list = <<>>
        /\ StartWith(TRUE))
       => /\ automation_index = 0
          /\ executed' = UpTo(Len(executed'))
          /\ Len(absolute_time_list') = Len(delay_list)
          /\ \A i \in 1..Len(delay_list) :
                 absolute_time_list'[i] =
                     now + SumFromTo(delay_list, 1, i) * TicksPerSecond]_vars

\* a script of one step delayed by a second was started again after it had
\* finished
C21_Witness ==
    /\ began_in = "(finished!)"
    /\ Mode = "(running)"
    /\ delay_list = <<1>>
    /\ absolute_time_list = <<now + TicksPerSecond>>
    /\ executed = <<>>

\* C24: while a run stays Running, from its start or resume on, no tick
\* raises the total time remaining (the clock of the model never goes
\* backwards).
C24_TimeToGoNeverIncreases ==
    [][(Mode = "(running)" /\ Mode' = "(running)")
       => time_to_go' <= time_to_go]_vars

\* the fired callback leaves the timer queue and one callback due at the
\* given time joins it
ScheduledAt(due) ==
    \E fired \in BagToSet(pending) :
        /\ fired <= now
        /\ pending' = (pending (-) SetToBag({fired})) (+) SetToBag({due})

\* C25: a tick that executes a step other than the last takes
\* seconds_to_next_task from the deadline of the new current step, so it
\* shows no time left when that deadline has passed, and schedules the next
\* tick with no delay when that deadline has passed and after a polling
\* interval otherwise, also when the executed step fired late.
C25_NextTickByDeadline ==
    [][(ExecutingTick /\ automation_index + 1 < Len(delay_list))
       => LET deadline == absolute_time_list[automation_index + 2]
          IN  IF now > deadline
              THEN /\ seconds_to_next_task' <= 0
                   /\ ScheduledAt(now + AfterUnits(0))
              ELSE /\ seconds_to_next_task' >= 0
                   /\ ScheduledAt(now + AfterUnits(PollingIntervalMs))]_vars

\* C26: a tick that finds the run Running and the current step not yet due
\* sets seconds_to_next_task to the rounded time left to the deadline and
\* schedules the next tick a polling interval later, never with no delay,
\* also when the clock stands at the deadline or the time left rounds to 0.
C26_NotDueTickWaitsAPollingInterval ==
    [][(RunningTick /\ ~ExecutingTick)
       => /\ seconds_to_next_task' =
                 RoundSeconds(absolute_time_list[automation_index + 1] - now)
          /\ ScheduledAt(now + AfterUnits(PollingIntervalMs))]_vars

\* C27: a tick that finds the run Running and does not finish the script
\* updates both display values on either branch: the countdown readout shows
\* seconds_to_next_task and the total shows round(end_time - now), also when
\* the tick schedules the next one with no delay.
C27_TickUpdatesBothReadouts ==
    [][(RunningTick /\ Mode' = "(running)")
       => /\ step_countdown_readout' = Timedelta(seconds_to_next_task')
          /\ time_to_go' = RoundSeconds(end_time - now)
          /\ time_to_go_readout' = Timedelta(time_to_go')]_vars

\* C28: between operations automation_index lies in 0 .. len(steps); with a
\* non-empty queue it is below len(steps), and it is 0 whenever no run is
\* in progress (after a load, a stop and the finishing tick).
C28_CursorInRange ==
    /\ 0 <= automation_index
    /\ automation_index <= Len(delay_list)
    /\ delay_list # <<>> => automation_index < Len(delay_list)
    /\ Mode \notin {"(running)", "(paused)"} => automation_index = 0

\* a script of two steps has finished: both steps were invoked and the cursor
\* is back at 0
C28_Witness ==
    /\ Mode = "(finished!)"
    /\ Len(delay_list) = 2
    /\ executed = <<0, 1>>
    /\ automation_index = 0

\* C29: whenever the run is Running the deadline list, the delay list and
\* the function list have the same length and automation_index is an index
\* into them, so a tick reads its deadline and its function inside the
\* lists.
C29_RunningListsAgree ==
    Mode = "(running)"
        => /\ Len(absolute_time_list) = Len(delay_list)
           /\ Len(lambda_list) = Len(delay_list)
           /\ 0 <= automation_index
           /\ automation_index < Len(delay_list)

\* a script of one step, started from the stopped mode, is Running and a
\* tick callback is overdue
C29_Witness ==
    /\ Mode = "(running)"
    /\ began_in = "(stopped)"
    /\ Len(delay_list) = 1
    /\ Len(absolute_time_list) = 1
    /\ Len(lambda_list) = 1
    /\ \E due \in BagToSet(pending) : due < now

\* C30 as stated: the start and the load button are disabled exactly while
\* the run is Running, the pause button is enabled only while Running, the
\* stop button only while Running or Paused; no start is executed while
\* Running and no stop on an empty queue.
C30_LoadDisabledExactlyWhileRunning ==
    [][/\ (buttons'.start = "disabled") <=> (Mode' = "(running)")
       /\ (buttons'.load = "disabled") <=> (Mode' = "(running)")
       /\ (buttons'.pause = "normal") => (Mode' = "(running)")
       /\ (buttons'.stop = "normal") => (Mode' \in {"(running)", "(paused)"})
       /\ (Mode = "(running)") => ~Start
       /\ (delay_list = <<>>) => ~Stop]_vars

\* C30: the start button is disabled exactly while the run is Running, the
\* load button exactly while it is Running or Paused, the pause button is
\* enabled exactly while Running, the stop button exactly while Running or
\* Paused; no start is executed while Running and no stop on an empty
\* queue.
C30_ControlsGatedByMode ==
    [][/\ (buttons'.start = "disabled") <=> (Mode' = "(running)")
       /\ (buttons'.load = "disabled") <=> (Mode' \in {"(running)", "(paused)"})
       /\ (buttons'.pause = "normal") <=> (Mode' = "(running)")
       /\ (buttons'.stop = "normal") <=> (Mode' \in {"(running)", "(paused)"})
       /\ (Mode = "(running)") => ~Start
       /\ (delay_list = <<>>) => ~Stop]_vars

\* a run was paused: the load and the pause button are disabled, the start
\* and the stop button are usable
C30_Witness ==
    /\ Mode = "(paused)"
    /\ paused_at >= 0
    /\ buttons.load = "disabled"
    /\ buttons.pause = "disabled"
    /\ buttons.start = "normal"
    /\ buttons.stop = "normal"

\* C31: the Stop button is usable while the run is Paused, and a stop of a
\* Paused run has the effect of a stop of a Running one: mode Stopped, cursor
\* 0, seconds_to_next_task the delay of step 0, progress "0/N"; an accepted
\* start of a stopped run begins at step 0 and gives every step the start
\* instant plus the full delays of the steps up to it.
C31_StopWhilePausedThenRestart ==
    [][/\ (Mode' = "(paused)") => (buttons'.stop = "normal")
       /\ (Stop /\ Mode = "(paused)")
              => /\ Mode' = "(stopped)"
                 /\ pause_tasks'
                 /\ automation_index' = 0
                 /\ seconds_to_next_task' = delay_list[1]
                 /\ lines_loaded' = <<0, Len(delay_list)>>
                 /\ Self' = _stop_automated_tasks(
                                [Self EXCEPT !.buttons = _buttons_running_mode,
                                             !.pause_tasks = FALSE])
       /\ (/\ Mode = "(stopped)"
           /\ absolute_time_list # <<>>
           /\ StartWith(TRUE))
              => /\ automation_index = 0
                 /\ executed' = UpTo(Len(executed'))
                 /\ \A i \in 1..Len(delay_list) :
                        absolute_time_list'[i] =
                            now + SumFromTo(delay_list, 1, i) * TicksPerSecond]_vars

\* a run of two steps was paused at its second step and stopped while
\* Paused: the cursor is back at step 0 and the countdown shows the delay of
\* step 0
C31_Witness ==
    /\ Mode = "(stopped)"
    /\ paused_at >= 0
    /\ Len(delay_list) = 2
    /\ absolute_time_list # <<>>
    /\ automation_index = 0
    /\ seconds_to_next_task = delay_list[1]
    /\ lines_loaded = <<0, 2>>

\* ---------------------------------------------------- claims on exec
\* the seconds a delay string stands for
Seconds(delay) == 3600 * delay[1][2] + 60 * delay[2][2] + delay[3][2]

\* the call appends a step to the queue
Appends(c) ==
    \/ c.op = "schedule_function"
    \/ c.op = "schedule_action" /\ c.function.field \in TargetAttributes

\* C13: for every run of schedule_delay calls followed by one
\* schedule_function call, the delay of the step that call appends is the
\* sum of the seconds of those delays (0 when there are none), and right
\* after the call the pending-delay accumulator is 0.
C13_StepDelayIsSumOfDelays ==
    \A j \in 1..exec_state.pc :
        LET sc == exec_state.script
            i == CHOOSE i \in 1..j :
                     /\ \A k \in i..(j - 1) : sc[k].op = "schedule_delay"
                     /\ i = 1 \/ sc[i - 1].op # "schedule_delay"
            step == Cardinality({k \in 1..j : Appends(sc[k])})
        IN  sc[j].op = "schedule_function" =>
               /\ delay_list[step] =
                      Sum([k \in 1..(j - i) |-> Seconds(sc[i + k - 1].delay)])
               /\ j = exec_state.pc => delay_for_loading = 0

\* two delays, "0:00:01" and "1:01:01", were summed into one step
C13_Witness ==
    /\ exec_state.pc = 3
    /\ exec_state.script[1] = Delay1
    /\ exec_state.script[2] = DelayHMS
    /\ delay_list = <<3662>>
    /\ delay_for_loading = 0

\* C14: schedule_action naming a field the target widget does not have
\* raises, and leaves the queue and the pending-delay accumulator as they
\* were.
C14_UnknownFieldAppendsNothing ==
    [][(/\ ExecCall
        /\ exec_state.script[exec_state.pc + 1].op = "schedule_action"
        /\ exec_state.script[exec_state.pc + 1].function.field
               \notin TargetAttributes)
       => /\ exec_state'.raised
          /\ delay_list' = delay_list
          /\ lambda_list' = lambda_list
          /\ delay_for_loading' = delay_for_loading]_vars

\* the call failed after one step was queued and one second of delay was
\* pending
C14_Witness ==
    /\ exec_state.raised
    /\ exec_state.pc = 3
    /\ exec_state.script[3] = ActionUnknownField
    /\ Len(delay_list) = 1
    /\ delay_for_loading = 1
\* C22: the delay of every queued step is a non-negative integer, and no
\* schedule_delay call lowers the pending-delay accumulator.
C22_DelaysNonNegative ==
    /\ delay_for_loading >= 0
    /\ \A i \in 1..Len(delay_list) : delay_list[i] >= 0
\* C23: invoking the step schedule_action queued sets the named field of
\* the target to the new value and then calls the target's confirm when
\* confirm was true, so that confirm sees the new value; when confirm was
\* false confirm is not called.
C23_ActionSetsThenConfirms ==
    [][(ExecInvoke /\ lambda_list[Len(executed) + 1].kind = "action")
       => LET f == lambda_list[Len(executed) + 1]
              set == <<<<"get_field", f.field>>,
                       <<"set_field", f.field, f.value>>>>
          IN  /\ target'.fields = [target.fields EXCEPT ![f.field] = f.value]
              /\ target'.calls =
                     target.calls \o set \o
                        (IF f.confirm
                         THEN << <<"confirm", target'.fields["Status Selection"]>> >>
                         ELSE <<>>)]_vars

\* the status was set to "Off" without a confirm, then to "On" with one
C23_Witness ==
    /\ Len(executed) = 2
    /\ target.fields["Status Selection"] = "On"
    /\ target.calls = << <<"get_field", "Status Selection">>,
                         <<"set_field", "Status Selection", "Off">>,
                         <<"get_field", "Status Selection">>,
                         <<"set_field", "Status Selection", "On">>,
                         <<"confirm", "On">> >>

\* ------------------------------------------------- loading file after file
\* the calls the files of this specification are made of
ReloadCalls == {Delay1, FunctionOk, ActionKnownField, DelayMalformed}

RECURSIVE ReloadScriptsOfLen(_)
ReloadScriptsOfLen(n) ==
    IF n = 0 THEN {<<>>}
    ELSE {Append(sc, c) : sc \in ReloadScriptsOfLen(n - 1), c \in ReloadCalls}

\* the files the dialog returns: none, or a script of at most MaxReloadLen
\* calls
ReloadFiles ==
    {Unreadable} \cup
    {ScriptFile(sc) : sc \in UNION {ReloadScriptsOfLen(n) : n \in 0..MaxReloadLen}}

\* the call raises inside exec
Raises(c) == ~Primitive(NewWidget, c).ok

\* the number of calls exec runs, the raising one included
Ran(script) ==
    IF \E k \in 1..Len(script) : Raises(script[k])
    THEN CHOOSE k \in 1..Len(script) :
             /\ Raises(script[k])
             /\ \A j \in 1..(k - 1) : ~Raises(script[j])
    ELSE Len(script)

\* the Load button; exec_state keeps the script of the file, where exec ended
\* and the pending-delay accumulator the load found
LoadFile ==
    /\ buttons.load = "normal"
    /\ \E file \in ReloadFiles :
          /\ Becomes(_load_automation_file(Self, file))
          /\ exec_state' =
                 [script |-> file.script, pc |-> Ran(file.script),
                  raised |-> \E k \in 1..Len(file.script) : Raises(file.script[k]),
                  found |-> delay_for_loading]
    /\ paused_at' = -1
    /\ began_in' = ""
    /\ UNCHANGED <<now, picarro>>

ReloadSpec == Init /\ [][LoadFile]_vars

\* the calls of the loaded script that returned
Returned ==
    SubSeq(exec_state.script, 1,
           IF exec_state.raised THEN exec_state.pc - 1 ELSE exec_state.pc)

\* the seconds of the schedule_delay calls among calls a .. b of sc
DelaysIn(sc, a, b) ==
    Sum([k \in 1..(b - a + 1) |->
            IF sc[a + k - 1].op = "schedule_delay"
            THEN Seconds(sc[a + k - 1].delay) ELSE 0])

\* C32: the delays a script schedules after its last step create no step and
\* add nothing to the total time remaining: the queue has one step per
\* appending call, the total is the sum of the delays up to the last step,
\* and the delay of the first step is the sum of the delays the loaded
\* script schedules before it, whatever an earlier script left pending.
C32_TrailingDelaysDoNotLeak ==
    LET sc == Returned
        steps == {k \in 1..Len(sc) : Appends(sc[k])}
        first == CHOOSE k \in steps : \A j \in steps : k <= j
        last == IF steps = {} THEN 0
                ELSE CHOOSE k \in steps : \A j \in steps : j <= k
    IN  /\ Len(delay_list) = Cardinality(steps)
        /\ Len(lambda_list) = Cardinality(steps)
        /\ Sum(delay_list) = DelaysIn(sc, 1, last)
        /\ delay_for_loading = DelaysIn(sc, last + 1, Len(sc))
        /\ file_loaded = "Loaded" => time_to_go = DelaysIn(sc, 1, last)
        /\ steps # {} => delay_list[1] = DelaysIn(sc, 1, first)

\* a script that delays its only step by a second and schedules another
\* second after it was loaded into a widget whose earlier script had left a
\* second pending
C32_Witness ==
    /\ exec_state.script = <<Delay1, FunctionOk, Delay1>>
    /\ exec_state.found = 1
    /\ file_loaded = "Loaded"
    /\ delay_list = <<1>>
    /\ time_to_go = 1
    /\ delay_for_loading = 1

\* ------------------------------------------------- the Picarro's serial line
\* a line with the three measurements in places 2 to 4 of its 7 parts
Reading(ch4, h2o, co2) ==
    [raises |-> FALSE,
     values |-> <<Text("b'"), Text("<"), Num(ch4), Num(h2o), Num(co2),
                  Text(">"), Text("\\r'")>>]

\* valid lines: CH4 2.125, 2.126 or 75 ppm, water 1.86 or 1.23456 %, CO2 400
\* or 571.019 ppm
Readings ==
    {Reading(ch4, h2o, co2) : ch4 \in {212500, 212600, 7500000},
                              h2o \in {186000, 123456},
                              co2 \in {40000000, 57101900}}

\* a line chopped off halfway, a line whose CH4 or CO2 is not a number, and
\* a readline that raises
Chopped ==
    [raises |-> FALSE,
     values |-> <<Text("b'"), Text("<"), Num(212500), Text("1.8'")>>]
BadCH4 ==
    [raises |-> FALSE,
     values |-> <<Text("b'"), Text("<"), Text("nan."), Num(186000),
                  Num(40000000), Text(">"), Text("\\r'")>>]
BadCO2 ==
    [raises |-> FALSE,
     values |-> <<Text("b'"), Text("<"), Num(212500), Num(186000),
                  Text("4e"), Text(">"), Text("\\r'")>>]
ReadlineRaises == [raises |-> TRUE, values |-> <<>>]

Responses == Readings \cup {Chopped, BadCH4, BadCO2, ReadlineRaises}

\* the framework calls on_serial_read; failures counts the reads since the
\* last one that returned True
SerialRead ==
    /\ \E resp \in Responses :
          LET r == on_serial_read(picarro.w, resp)
          IN  /\ r.ret # <<"True">> => picarro.failures < MaxFails
              /\ picarro' = [w |-> r.w, returned |-> r.ret,
                             failures |-> IF r.ret = <<"True">> THEN 0
                                          ELSE picarro.failures + 1]
    /\ UNCHANGED <<delay_for_loading, delay_list, absolute_time_list,
                   lambda_list, automation_index, seconds_to_next_task,
                   time_to_go, pause_tasks, end_time, buttons, file_loaded,
                   lines_loaded, step_countdown_readout, time_to_go_readout,
                   pending, executed, now, paused_at, messagebox, exec_state,
                   target, began_in>>

\* the framework calls on_serial_open with the outcome of opening the port
SerialOpen ==
    /\ \E success \in BOOLEAN :
          picarro' = [picarro EXCEPT !.w = on_serial_open(@, success),
                                     !.returned = <<"None">>]
    /\ UNCHANGED <<delay_for_loading, delay_list, absolute_time_list,
                   lambda_list, automation_index, seconds_to_next_task,
                   time_to_go, pause_tasks, end_time, buttons, file_loaded,
                   lines_loaded, step_countdown_readout, time_to_go_readout,
                   pending, executed, now, paused_at, messagebox, exec_state,
                   target, began_in>>

\* the framework calls on_serial_close
SerialClose ==
    /\ picarro' = [picarro EXCEPT !.w = on_serial_close(@),
                                  !.returned = <<"None">>]
    /\ UNCHANGED <<delay_for_loading, delay_list, absolute_time_list,
                   lambda_list, automation_index, seconds_to_next_task,
                   time_to_go, pause_tasks, end_time, buttons, file_loaded,
                   lines_loaded, step_countdown_readout, time_to_go_readout,
                   pending, executed, now, paused_at, messagebox, exec_state,
                   target, began_in>>

PicarroNext == SerialRead \/ SerialOpen \/ SerialClose

PicarroSpec == Init /\ [][PicarroNext]_vars

\* the handler wrote 'Read Error' to the three readouts
WroteReadError ==
    picarro.w.calls = <<<<"set_field", "CH4 (ppm)", Text("Read Error")>>,
                        <<"set_field", "CO2 (ppm)", Text("Read Error")>>,
                        <<"set_field", "H2O (vol %)", Text("Read Error")>>>>

\* C33: a read writes 'Read Error' to the three readouts exactly when it
\* fails and is the fourth or a later one of a run of failed reads; a failed
\* read that is at most the third of its run writes no readout and leaves
\* the three as they were; a read that returns True sets num_fails to 0.
C33_ReadErrorAfterThreeFailures ==
    [][SerialRead
       => /\ WroteReadError' <=> (picarro'.returned # <<"True">>
                                   /\ picarro'.failures > 3)
          /\ WroteReadError'
                 => \A f \in PicarroFields :
                        picarro'.w.fields[f] = Text("Read Error")
          /\ (picarro'.returned # <<"True">> /\ picarro'.failures <= 3)
                 => /\ picarro'.w.calls = <<>>
                    /\ picarro'.w.fields = picarro.w.fields
          /\ picarro'.returned = <<"True">> => picarro'.w.num_fails = 0
          /\ picarro'.w.num_fails = picarro'.failures]_vars

\* three reads have failed since CH4 2.125 ppm was read, the last one with a
\* CO2 that is not a number, and the readouts still show the reading
C33_Witness ==
    /\ picarro.failures = 3
    /\ picarro.w.num_fails = 3
    /\ picarro.returned = <<"message", BadCO2.values>>
    /\ picarro.w.fields["CH4 (ppm)"] = Num(212000)
    /\ picarro.w.fields["CO2 (ppm)"] = Num(57102000)
    /\ picarro.w.fields["H2O (vol %)"] = Num(123460)
=============================================================================
